---- MODULE Spec2Model ----
(***************************************************************************)
(* zget/put.py: the sender side of zget.  put() binds a StateHTTPServer,   *)
(* announces it under two zeroconf names, serves one request through      *)
(* FileHandler.do_GET, tears down, and decides between "Done." and         *)
(* TimeoutException.                                                       *)
(***************************************************************************)
EXTENDS Integers, Sequences, FiniteSets, TLC

VARIABLES
    filename,        \* put(filename): the path, as its components
    fileData,        \* the bytes of the file
    timeout,         \* put(timeout=...): None or seconds
    reporthook,      \* put(reporthook=...): TRUE when a hook is given
    broadcast_token, \* utils.prepare_token(token)[0]
    secret_token,    \* utils.prepare_token(token)[1]
    address,         \* put(address=...)
    port,            \* put(port=...)
    input_is_file,   \* cli: os.path.isfile(args.input)
    interface_given, \* cli: args.interface is given
    address_given,   \* cli: args.address is given
    pc,              \* position of put() / do_GET
    sock,            \* server.socket: "unbound", "listening", "closed"
    server_port,     \* server.server_port
    downloaded,      \* server.downloaded
    zc,              \* the Zeroconf instance: "none", "open", "closed"
    registered,      \* ServiceInfo records registered with zeroconf
    info,            \* the local variable info of put(): Undefined or a record
    announceIdx,     \* index of the for loop over [broadcast_token, filehash]
    backlog,         \* request paths of peers connected to the listening socket
    arrived,         \* number of peers that connected so far
    handled,         \* number of requests accepted by handle_request
    req,             \* self.path of the request being handled
    resp,            \* what the handler wrote to the peer
    fpos,            \* read position of fh
    i,               \* the chunk counter i of do_GET
    hookCalls,       \* argument triples reporthook was called with
    exitCause,       \* how server.handle_request() / the try block ended
    interruptedAt,   \* pc at which KeyboardInterrupt was received
    result           \* outcome of put(): "running", "Done." or the exception

vars == <<filename, fileData, timeout, reporthook, broadcast_token,
          secret_token, address, port, input_is_file, interface_given,
          address_given, pc, sock, server_port, downloaded, zc,
          registered, info, announceIdx, backlog, arrived, handled, req, resp,
          fpos, i, hookCalls, exitCause, interruptedAt, result>>

inputs == <<filename, fileData, timeout, reporthook, broadcast_token,
            secret_token, address, port, input_is_file, interface_given,
            address_given>>

handlerVars == <<req, resp, fpos, i, hookCalls>>

(***************************************************************************)
(* Bounds of the model                                                     *)
(***************************************************************************)
MaxFileLen == 3     \* longest file, in bytes
ChunkSize == 2      \* stands for the read size 1024 * 8 of do_GET
MaxRequests == 2    \* peers that connect during one run

\* Python's None and an unbound name are the empty option, a value x is {x}
None == {}
Undefined == {}
Some(x) == {x}
The(option) == CHOOSE x \in option : TRUE
\* no request read yet, no interrupt received yet
NotYet == "-"
Bytes == {0, 1}
Filenames == {<<"f.txt">>, <<"docs", "f.txt">>}
Tokens == {<<"ab", "cd">>}
Timeouts == {None, Some(5)}
Ports == {-1, 0, 8080, 65536}
EphemeralPorts == {49152}
Addresses == {"192.168.0.2"}

RECURSIVE SeqsUpTo(_, _)
SeqsUpTo(S, n) ==
    IF n = 0 THEN {<<>>}
    ELSE LET shorter == SeqsUpTo(S, n - 1)
         IN shorter \cup {Append(s, b) : s \in {t \in shorter : Len(t) = n - 1}, b \in S}

Min(a, b) == IF a < b THEN a ELSE b

(***************************************************************************)
(* put(): names derived from the arguments                                 *)
(***************************************************************************)
\* os.path.basename(filename)
basename == filename[Len(filename)]

\* hashlib.sha1(basename.encode('utf-8')).hexdigest(), uninterpreted
filehash == "sha1:" \o basename

\* "%s._zget._http._tcp.local." % announce_token
ServiceName(announce_token) == announce_token \o "._zget._http._tcp.local."

\* a bug: the whole token is announced, secret fragment included
AnnounceWholeToken == <<broadcast_token \o secret_token, filehash>>

\* the list [broadcast_token, filehash] the for loop runs over
AnnounceTokens == <<broadcast_token, filehash>>

\* a bug: the record carries the requested port, not server.server_port
ServiceInfoRequestedPort(announce_token) ==
    [type |-> "_zget._http._tcp.local.",
     name |-> ServiceName(announce_token),
     address |-> address,
     port |-> port]

\* ServiceInfo("_zget._http._tcp.local.", name, inet_aton(address), port, 0, 0, {'path': None})
ServiceInfo(announce_token) ==
    [type |-> "_zget._http._tcp.local.",
     name |-> ServiceName(announce_token),
     address |-> address,
     port |-> The(server_port)]

(***************************************************************************)
(* FileHandler.do_GET: what it compares and what it sends                  *)
(***************************************************************************)
\* a bug: the handler compares against the broadcast fragment as well
MatchesBroadcast(path) ==
    path \in {"/" \o secret_token, "/" \o basename, "/" \o broadcast_token}

\* a bug: only the token is accepted
MatchesTokenOnly(path) == path = "/" \o secret_token

\* self.path in ('/' + self.server.token, '/' + self.server.basename)
Matches(path) == path \in {"/" \o secret_token, "/" \o basename}

\* paths peers ask for
Paths == {"/" \o secret_token, "/" \o basename, "/" \o broadcast_token, "/"}

NoResponse == [status |-> 0, headers |-> <<>>, ended |-> FALSE, body |-> <<>>]

\* send_response(404); end_headers()
NotFoundResponse == [status |-> 404, headers |-> <<>>, ended |-> TRUE, body |-> <<>>]

\* send_response(200) and the three send_header calls, end_headers()
OkResponse ==
    [status |-> 200,
     headers |-> << <<"Content-type", "application/octet-stream">>,
                    <<"Content-disposition", "inline; filename=\"" \o basename \o "\"">>,
                    <<"Content-length", Len(fileData)>> >>,
     ended |-> TRUE,
     body |-> <<>>]

\* a bug: reads return a single byte
ReadChunkShort(pos) == SubSeq(fileData, pos + 1, Min(pos + 1, Len(fileData)))

\* fh.read(1024 * 8) at position pos
ReadChunk(pos) == SubSeq(fileData, pos + 1, Min(pos + ChunkSize, Len(fileData)))

(***************************************************************************)
(* Initial states: the arguments are chosen, nothing has run yet           *)
(***************************************************************************)
\* the arguments and the state before the first statement
Start ==
    /\ filename \in Filenames
    /\ fileData \in SeqsUpTo(Bytes, MaxFileLen)
    /\ timeout \in Timeouts
    /\ reporthook \in BOOLEAN
    /\ \E t \in Tokens : broadcast_token = t[1] /\ secret_token = t[2]
    /\ address \in Addresses
    /\ port \in Ports
    /\ sock = "unbound"
    /\ server_port = None
    /\ downloaded = FALSE
    /\ zc = "none"
    /\ registered = {}
    /\ info = Undefined
    /\ announceIdx = 1
    /\ backlog = <<>>
    /\ arrived = 0
    /\ handled = 0
    /\ req = NotYet
    /\ resp = NoResponse
    /\ fpos = 0
    /\ i = 0
    /\ hookCalls = <<>>
    /\ exitCause = "none"
    /\ interruptedAt = NotYet
    /\ result = "running"

\* put() has been called by a program, with an address
Init ==
    /\ Start
    /\ input_is_file = TRUE
    /\ interface_given = FALSE
    /\ address_given = TRUE
    /\ pc = "check_port"

\* cli() has parsed its arguments
InitCli ==
    /\ Start
    /\ input_is_file \in BOOLEAN
    /\ interface_given \in BOOLEAN
    /\ address_given \in BOOLEAN
    /\ pc = "cli"

\* put() leaves by raising exc; nothing after the raise runs
Raise(exc) == pc' = "raised" /\ result' = exc

(***************************************************************************)
(* cli(): the checks before put() is called                                *)
(***************************************************************************)
\* a bug: --address and --interface together are let through
CliCheckFileOnly ==
    /\ pc = "cli"
    /\ IF ~input_is_file
       THEN Raise("ValueError")
       ELSE pc' = "check_port" /\ UNCHANGED result
    /\ UNCHANGED <<inputs, sock, server_port, downloaded, zc, registered,
                   info, announceIdx, backlog, arrived, handled, handlerVars,
                   exitCause, interruptedAt>>

\* if not os.path.isfile(args.input): raise ValueError
\* if args.interface and args.address: raise ValueError; then put(...)
CliCheck ==
    /\ pc = "cli"
    /\ IF ~input_is_file \/ (interface_given /\ address_given)
       THEN Raise("ValueError")
       ELSE pc' = "check_port" /\ UNCHANGED result
    /\ UNCHANGED <<inputs, sock, server_port, downloaded, zc, registered,
                   info, announceIdx, backlog, arrived, handled, handlerVars,
                   exitCause, interruptedAt>>

(***************************************************************************)
(* put(): setup                                                            *)
(***************************************************************************)
\* if not 0 <= port <= 65535: raise ValueError
CheckPort ==
    /\ pc = "check_port"
    /\ IF 0 <= port /\ port <= 65535
       THEN pc' = "bind" /\ UNCHANGED result
       ELSE Raise("ValueError")
    /\ UNCHANGED <<inputs, sock, server_port, downloaded, zc, registered,
                   info, announceIdx, backlog, arrived, handled, handlerVars,
                   exitCause, interruptedAt>>

\* server = StateHTTPServer((address, port), FileHandler); port = server.server_port
Bind ==
    /\ pc = "bind"
    /\ \/ /\ sock' = "listening"
          /\ \E p \in (IF port = 0 THEN EphemeralPorts ELSE {port}) : server_port' = Some(p)
          /\ pc' = "zeroconf"
          /\ UNCHANGED result
       \/ /\ Raise("socket.error")
          /\ UNCHANGED <<sock, server_port>>
    /\ UNCHANGED <<inputs, downloaded, zc, registered, info, announceIdx,
                   backlog, arrived, handled, handlerVars, exitCause,
                   interruptedAt>>

\* zeroconf = Zeroconf()
NewZeroconf ==
    /\ pc = "zeroconf"
    /\ \/ /\ zc' = "open"
          /\ pc' = "make_info"
          /\ UNCHANGED result
       \/ /\ Raise("socket.error")
          /\ UNCHANGED zc
    /\ UNCHANGED <<inputs, sock, server_port, downloaded, registered, info,
                   announceIdx, backlog, arrived, handled, handlerVars, exitCause,
                   interruptedAt>>

\* info = ServiceInfo(...) inside the for loop
MakeInfo ==
    /\ pc = "make_info"
    /\ info' = Some(ServiceInfo(AnnounceTokens[announceIdx]))
    /\ pc' = "register"
    /\ UNCHANGED <<inputs, sock, server_port, downloaded, zc, registered,
                   announceIdx, backlog, arrived, handled, handlerVars, exitCause,
                   interruptedAt, result>>

\* a bug: handle_request() is called after the first alias is registered
RegisterThenServe ==
    /\ pc = "register"
    /\ \/ /\ registered' = registered \cup info
          /\ pc' = "waiting"
          /\ UNCHANGED <<result, announceIdx>>
       \/ /\ Raise("zeroconf.Error")
          /\ UNCHANGED <<registered, announceIdx>>
    /\ UNCHANGED <<inputs, sock, server_port, downloaded, zc, info, backlog,
                   arrived, handled, handlerVars, exitCause, interruptedAt>>

\* zeroconf.register_service(info); after the last alias, server.handle_request()
RegisterService ==
    /\ pc = "register"
    /\ \/ /\ registered' = registered \cup info
          /\ IF announceIdx < Len(AnnounceTokens)
             THEN announceIdx' = announceIdx + 1 /\ pc' = "make_info"
             ELSE UNCHANGED announceIdx /\ pc' = "waiting"
          /\ UNCHANGED result
       \/ /\ Raise("zeroconf.Error")
          /\ UNCHANGED <<registered, announceIdx>>
    /\ UNCHANGED <<inputs, sock, server_port, downloaded, zc, info, backlog,
                   arrived, handled, handlerVars, exitCause, interruptedAt>>

(***************************************************************************)
(* The peers and server.handle_request()                                   *)
(***************************************************************************)
\* a peer connects to the listening socket and sends "GET path"
PeerConnects ==
    /\ sock = "listening"
    /\ arrived < MaxRequests
    /\ \E path \in Paths : backlog' = Append(backlog, path)
    /\ arrived' = arrived + 1
    /\ UNCHANGED <<inputs, pc, sock, server_port, downloaded, zc, registered, info,
                   announceIdx, handled, handlerVars, exitCause, interruptedAt,
                   result>>

\* a bug: handle_request() is called in a loop (serve_forever)
ServeAgain == "waiting"

\* where put() continues when server.handle_request() has returned
AfterHandleRequest == "close_socket"

\* a bug: the timeout also cuts a request that is being served
TimeoutCutsTransfer ==
    /\ pc \in {"waiting", "open", "stream"}
    /\ timeout # None
    /\ backlog = <<>>

\* a bug: server.timeout is never set, handle_request() blocks without limit
TimeoutNeverSet == FALSE

\* server.timeout = timeout: handle_request() gives up when no peer connected in time
TimeoutEnabled ==
    /\ pc = "waiting"
    /\ timeout # None
    /\ backlog = <<>>

\* handle_request() returns through handle_timeout()
HandleTimeout ==
    /\ TimeoutEnabled
    /\ exitCause' = "timeout"
    /\ pc' = AfterHandleRequest
    /\ UNCHANGED <<inputs, sock, server_port, downloaded, zc, registered, info,
                   announceIdx, backlog, arrived, handled, handlerVars,
                   interruptedAt, result>>

\* handle_request() accepts one connection and runs do_GET up to its branch:
\* a path that does not match gets 404 and RuntimeError, which
\* socketserver's handle_error swallows, so handle_request() returns
AcceptRequest ==
    /\ pc = "waiting"
    /\ backlog # <<>>
    /\ req' = Head(backlog)
    /\ backlog' = Tail(backlog)
    /\ handled' = handled + 1
    /\ IF Matches(Head(backlog))
       THEN /\ pc' = "open"
            /\ UNCHANGED <<resp, exitCause>>
       ELSE /\ resp' = NotFoundResponse
            /\ exitCause' = "rejected"
            /\ pc' = AfterHandleRequest
    /\ UNCHANGED <<inputs, sock, server_port, downloaded, zc, registered, info,
                   announceIdx, arrived, fpos, i, hookCalls, interruptedAt, result>>

\* with open(full_path, 'rb') as fh: maxsize, send_response(200), headers;
\* a failing open raises before anything is sent, handle_error swallows it
OpenFile ==
    /\ pc = "open"
    /\ \/ /\ resp' = OkResponse
          /\ fpos' = 0
          /\ i' = 0
          /\ pc' = "stream"
          /\ UNCHANGED exitCause
       \/ /\ exitCause' = "ioerror"
          /\ pc' = AfterHandleRequest
          /\ UNCHANGED <<resp, fpos, i>>
    /\ UNCHANGED <<inputs, sock, server_port, downloaded, zc, registered, info,
                   announceIdx, backlog, arrived, handled, req, hookCalls,
                   interruptedAt, result>>

\* a bug: downloaded is set inside the loop, when a chunk was written
StreamChunkFlagInLoop ==
    /\ pc = "stream"
    /\ LET data == ReadChunk(fpos) IN
       IF data = <<>>
       THEN /\ exitCause' = "served"
            /\ pc' = AfterHandleRequest
            /\ UNCHANGED <<resp, fpos, i, hookCalls, downloaded>>
       ELSE \/ /\ resp' = [resp EXCEPT !.body = @ \o data]
               /\ fpos' = fpos + Len(data)
               /\ hookCalls' = IF reporthook
                               THEN Append(hookCalls, <<i, ChunkSize, Len(fileData)>>)
                               ELSE hookCalls
               /\ i' = i + 1
               /\ downloaded' = (fpos + Len(data) = Len(fileData))
               /\ UNCHANGED <<pc, exitCause>>
            \/ /\ exitCause' = "ioerror"
               /\ pc' = AfterHandleRequest
               /\ UNCHANGED <<resp, fpos, i, hookCalls, downloaded>>
    /\ UNCHANGED <<inputs, sock, server_port, zc, registered, info, announceIdx,
                   backlog, arrived, handled, req, interruptedAt, result>>

\* a bug: downloaded is set in a finally clause, also when a write failed
StreamChunkFlagAlways ==
    /\ pc = "stream"
    /\ LET data == ReadChunk(fpos) IN
       IF data = <<>>
       THEN /\ downloaded' = TRUE
            /\ exitCause' = "served"
            /\ pc' = AfterHandleRequest
            /\ UNCHANGED <<resp, fpos, i, hookCalls>>
       ELSE \/ /\ resp' = [resp EXCEPT !.body = @ \o data]
               /\ fpos' = fpos + Len(data)
               /\ hookCalls' = IF reporthook
                               THEN Append(hookCalls, <<i, ChunkSize, Len(fileData)>>)
                               ELSE hookCalls
               /\ i' = i + 1
               /\ UNCHANGED <<pc, downloaded, exitCause>>
            \/ /\ exitCause' = "ioerror"
               /\ downloaded' = TRUE
               /\ pc' = AfterHandleRequest
               /\ UNCHANGED <<resp, fpos, i, hookCalls>>
    /\ UNCHANGED <<inputs, sock, server_port, zc, registered, info, announceIdx,
                   backlog, arrived, handled, req, interruptedAt, result>>

\* one turn of the while loop: read, break on no data, write, reporthook, i += 1;
\* after the loop self.server.downloaded = True.  A failing write raises.
StreamChunk ==
    /\ pc = "stream"
    /\ LET data == ReadChunk(fpos) IN
       IF data = <<>>
       THEN /\ downloaded' = TRUE
            /\ exitCause' = "served"
            /\ pc' = AfterHandleRequest
            /\ UNCHANGED <<resp, fpos, i, hookCalls>>
       ELSE \/ /\ resp' = [resp EXCEPT !.body = @ \o data]
               /\ fpos' = fpos + Len(data)
               /\ hookCalls' = IF reporthook
                               THEN Append(hookCalls, <<i, ChunkSize, Len(fileData)>>)
                               ELSE hookCalls
               /\ i' = i + 1
               /\ UNCHANGED <<pc, downloaded, exitCause>>
            \/ /\ exitCause' = "ioerror"
               /\ pc' = AfterHandleRequest
               /\ UNCHANGED <<resp, fpos, i, hookCalls, downloaded>>
    /\ UNCHANGED <<inputs, sock, server_port, zc, registered, info, announceIdx,
                   backlog, arrived, handled, req, interruptedAt, result>>

\* KeyboardInterrupt inside the try block: except KeyboardInterrupt: pass
KeyboardInterrupt ==
    /\ pc \in {"make_info", "register", "waiting", "open", "stream"}
    /\ interruptedAt' = pc
    /\ exitCause' = "interrupt"
    /\ pc' = "close_socket"
    /\ UNCHANGED <<inputs, sock, server_port, downloaded, zc, registered, info,
                   announceIdx, backlog, arrived, handled, handlerVars, result>>

(***************************************************************************)
(* put(): teardown and outcome                                             *)
(***************************************************************************)
\* server.socket.close()
CloseSocket ==
    /\ pc = "close_socket"
    /\ sock' = "closed"
    /\ backlog' = <<>>
    /\ pc' = "unregister"
    /\ UNCHANGED <<inputs, server_port, downloaded, zc, registered, info,
                   announceIdx, arrived, handled, handlerVars, exitCause,
                   interruptedAt, result>>

\* zeroconf.unregister_service(info); info is unbound when the loop never bound it
UnregisterService ==
    /\ pc = "unregister"
    /\ IF info = Undefined
       THEN Raise("NameError") /\ UNCHANGED registered
       ELSE /\ registered' = registered \ info
            /\ pc' = "zeroconf_close"
            /\ UNCHANGED result
    /\ UNCHANGED <<inputs, sock, server_port, downloaded, zc, info, announceIdx,
                   backlog, arrived, handled, handlerVars, exitCause,
                   interruptedAt>>

\* a bug: only the sockets of zeroconf are closed, services stay registered
ZeroconfCloseKeepsServices ==
    /\ pc = "zeroconf_close"
    /\ zc' = "closed"
    /\ pc' = "outcome"
    /\ UNCHANGED <<inputs, sock, server_port, downloaded, registered, info,
                   announceIdx, backlog, arrived, handled, handlerVars, exitCause,
                   interruptedAt, result>>

\* zeroconf.close(), which unregisters every service still registered
ZeroconfClose ==
    /\ pc = "zeroconf_close"
    /\ registered' = {}
    /\ zc' = "closed"
    /\ pc' = "outcome"
    /\ UNCHANGED <<inputs, sock, server_port, downloaded, info, announceIdx,
                   backlog, arrived, handled, handlerVars, exitCause,
                   interruptedAt, result>>

\* a bug: the outcome looks only at downloaded
TimeoutIgnored == ~downloaded

\* timeout is not None and not server.downloaded
RaisesTimeout == timeout # None /\ ~downloaded

\* raise utils.TimeoutException() or utils.logger.info("Done.")
Outcome ==
    /\ pc = "outcome"
    /\ IF RaisesTimeout
       THEN Raise("TimeoutException")
       ELSE pc' = "done" /\ result' = "Done."
    /\ UNCHANGED <<inputs, sock, server_port, downloaded, zc, registered, info,
                   announceIdx, backlog, arrived, handled, handlerVars, exitCause,
                   interruptedAt>>

(***************************************************************************)
(* Specifications                                                          *)
(***************************************************************************)
PutStep ==
    \/ CheckPort
    \/ Bind
    \/ NewZeroconf
    \/ MakeInfo
    \/ RegisterService
    \/ AcceptRequest
    \/ OpenFile
    \/ StreamChunk
    \/ CloseSocket
    \/ UnregisterService
    \/ ZeroconfClose
    \/ Outcome

Next ==
    \/ PutStep
    \/ HandleTimeout
    \/ PeerConnects
    \/ KeyboardInterrupt

Spec == Init /\ [][Next]_vars

\* the program started from the command line
NextCli ==
    \/ CliCheck
    \/ Next

CliSpec == InitCli /\ [][NextCli]_vars

\* the interpreter keeps running put() and the timer of handle_request() expires
FairSpec == Spec /\ WF_vars(PutStep) /\ WF_vars(HandleTimeout)

Terminated == pc \in {"done", "raised"}

\* put() is past server.handle_request()
PastRequest ==
    pc \in {"close_socket", "unregister", "zeroconf_close", "outcome", "done"}

\* the two paths do_GET is documented to accept
AcceptedPaths == {"/" \o secret_token, "/" \o basename}

\* the value of the Content-length header sent, or -1
DeclaredLength ==
    LET found == {n \in 1..Len(resp.headers) : resp.headers[n][1] = "Content-length"}
    IN IF found = {} THEN -1 ELSE resp.headers[CHOOSE n \in found : TRUE][2]

(***************************************************************************)
(* Claims                                                                  *)
(***************************************************************************)
\* C1: a GET for '/' + secret or '/' + basename is answered with 200, a declared
\* content length of N and, unless an I/O error or an interrupt cuts it, a body
\* that is exactly the N bytes of the file, after which downloaded is true.
C1_MatchingRequestServed ==
    /\ (handled >= 1 /\ req \in AcceptedPaths /\ pc = "stream")
         => /\ resp.status = 200
            /\ DeclaredLength = Len(fileData)
            /\ resp.body = SubSeq(fileData, 1, fpos)
    /\ (handled >= 1 /\ req \in AcceptedPaths
          /\ exitCause \notin {"none", "ioerror", "interrupt"})
         => /\ exitCause = "served"
            /\ resp.status = 200
            /\ DeclaredLength = Len(fileData)
            /\ resp.body = fileData
            /\ downloaded

C1_Witness ==
    /\ exitCause = "served"
    /\ req = "/" \o basename
    /\ Len(filename) = 2
    /\ Len(fileData) > ChunkSize
    /\ resp.body = fileData

\* C2: a GET for any other path is answered with 404 and no body; no file byte
\* is written, the progress hook is not called and downloaded stays false.
C2_OtherPathNotFound ==
    (handled >= 1 /\ req \notin AcceptedPaths)
       => /\ resp.status = 404
          /\ resp.headers = <<>>
          /\ resp.body = <<>>
          /\ hookCalls = <<>>
          /\ ~downloaded

C2_Witness ==
    /\ handled = 1
    /\ req = "/" \o broadcast_token
    /\ resp.status = 404
    /\ reporthook
    /\ fileData # <<>>
    /\ pc = "done"

C4_SingleShot ==
    /\ [](handled <= 1)
    /\ [](downloaded => (handled = 1 /\ exitCause = "served"))
    /\ [][downloaded => downloaded']_vars
    /\ [][downloaded => UNCHANGED <<handled, req, resp, hookCalls>>]_vars

C4_Witness ==
    /\ downloaded
    /\ sock = "listening"
    /\ backlog # <<>>
    /\ Head(backlog) \in AcceptedPaths

\* C5 (as claimed): every run that bound the socket ends with the socket closed
\* and every discovery record withdrawn, whatever happened in between.
C5_TeardownUnconditional ==
    (Terminated /\ sock # "unbound") => (sock = "closed" /\ registered = {})

\* C6: once teardown has run, put() raises TimeoutException exactly when a
\* timeout was configured and downloaded is false, and ends with "Done." in
\* every other case.
C6_TerminalDetermination ==
    (Terminated /\ zc = "closed")
       => /\ (result = "TimeoutException") <=> (timeout # None /\ ~downloaded)
          /\ (result = "Done.") <=> (timeout = None \/ downloaded)

C6_Witness ==
    /\ Terminated
    /\ zc = "closed"
    /\ timeout = None
    /\ ~downloaded
    /\ result = "Done."

\* C7: with a timeout configured and no request ever arriving, the wait ends
\* and put() raises TimeoutException; whenever it is raised the socket is
\* closed and the records are withdrawn.
C7_TimeoutAfterTeardown ==
    /\ [](arrived = 0) =>
          ((pc = "waiting" /\ timeout # None) ~> (result = "TimeoutException"))
    /\ [](result = "TimeoutException"
            => (sock = "closed" /\ registered = {} /\ zc = "closed"))

C7_Witness ==
    /\ result = "TimeoutException"
    /\ exitCause = "timeout"
    /\ arrived = 0
    /\ sock = "closed"

\* C8: the timeout bounds only the wait: handle_request() never ends by timeout
\* once a request was accepted, and a matching request that no I/O error or
\* interrupt cuts is served in full, so that put() ends with "Done.".
C8_TimeoutBoundsOnlyWait ==
    /\ exitCause = "timeout" => (handled = 0 /\ resp = NoResponse)
    /\ (Terminated /\ handled = 1 /\ req \in AcceptedPaths
          /\ exitCause \notin {"ioerror", "interrupt"})
         => (downloaded /\ resp.body = fileData /\ result = "Done.")

C8_Witness ==
    /\ Terminated
    /\ timeout # None
    /\ exitCause = "served"
    /\ i >= 2
    /\ result = "Done."

\* C9 (as claimed): an interrupt received while waiting for the request is never
\* reported as an error: put() tears down and returns normally.
C9_InterruptIsNoError ==
    (Terminated /\ interruptedAt = "waiting") => result = "Done."

\* C10 (as claimed): with no timeout configured put() leaves the wait only when
\* downloaded has become true or an interrupt occurred.
C10_NoTimeoutWaitsForever ==
    (timeout = None /\ PastRequest) => (downloaded \/ exitCause = "interrupt")

\* the instance names of the records registered at the moment
AnnouncedNames == {r.name : r \in registered}

\* the two instance names a run announces
AliasNames ==
    {broadcast_token \o "._zget._http._tcp.local.",
     filehash \o "._zget._http._tcp.local."}

\* C11: handle_request() starts, and a request is accepted, only when both
\* discovery records are registered; a record is withdrawn only when the
\* listening socket has been closed.
C11_DiscoveryBracketsServing ==
    /\ [](pc \in {"waiting", "open", "stream"} => AnnouncedNames = AliasNames)
    /\ [][handled' # handled => AnnouncedNames = AliasNames]_vars
    /\ [][~(registered \subseteq registered') => sock = "closed"]_vars

C11_Witness ==
    /\ pc = "unregister"
    /\ sock = "closed"
    /\ handled = 1
    /\ AnnouncedNames = AliasNames

\* C12 (as claimed): a run that has ended has no record of its own left
\* registered, also when only some of its records were registered.
C12_WithdrawalCoversAll ==
    Terminated => registered = {}

\* C12 (what holds): when teardown runs, no record of the run stays
\* registered, and teardown does not fail when only some of the records were
\* registered: the NameError of unregister_service(info) needs a run that
\* registered none.
C12_TeardownWithdrawsAll ==
    /\ []((pc \in {"outcome", "done"} \/ result = "TimeoutException")
            => registered = {})
    /\ [](registered # {} => info # Undefined)
    /\ [](result = "NameError" => (registered = {} /\ announceIdx = 1))
    /\ [][(pc = "unregister" /\ info # Undefined /\ pc' # pc)
            => pc' = "zeroconf_close"]_vars
    /\ [][(pc = "zeroconf_close" /\ pc' # pc)
            => (pc' = "outcome" /\ registered' = {})]_vars

C12_TeardownWitness ==
    /\ pc = "outcome"
    /\ interruptedAt = "make_info"
    /\ announceIdx = 2
    /\ registered = {}

\* C13: the secret fragment is never announced: every record built or
\* registered carries one of the two alias names, never the name made from
\* the secret fragment, which do_GET accepts as the path '/' + secret.
C13_SecretNeverAnnounced ==
    /\ \A r \in registered \cup info :
          /\ r.name \in AliasNames
          /\ r.name # secret_token \o "._zget._http._tcp.local."
    /\ Matches("/" \o secret_token)

C13_Witness ==
    /\ Cardinality(registered) = 2
    /\ pc = "stream"
    /\ req = "/" \o secret_token

\* C14: with a progress hook, each chunk written is followed by one call
\* reporthook(index, C, N), the index counting 0, 1, 2, ...; a complete
\* transfer makes n calls with N <= n * C < N + C.
C14_HookPerChunk ==
    /\ (reporthook /\ pc = "stream")
         => /\ Len(hookCalls) = i
            /\ Len(resp.body) = fpos
            /\ (i - 1) * ChunkSize < fpos
            /\ fpos <= i * ChunkSize
    /\ \A k \in 1..Len(hookCalls) :
          hookCalls[k] = <<k - 1, ChunkSize, Len(fileData)>>
    /\ (reporthook /\ exitCause = "served")
         => /\ Len(fileData) <= Len(hookCalls) * ChunkSize
            /\ Len(hookCalls) * ChunkSize < Len(fileData) + ChunkSize
    /\ ~reporthook => hookCalls = <<>>

C14_Witness ==
    /\ reporthook
    /\ exitCause = "served"
    /\ Len(hookCalls) = 2
    /\ Len(fileData) = MaxFileLen

\* C15: a matching request for a zero-length file gets 200 with content length
\* 0; the loop writes no chunk and calls no hook, and downloaded is set.
C15_EmptyFile ==
    (fileData = <<>> /\ handled >= 1 /\ req \in AcceptedPaths)
       => /\ resp.body = <<>> /\ hookCalls = <<>> /\ i = 0
          /\ pc = "stream" => (resp.status = 200 /\ DeclaredLength = 0)
          /\ (PastRequest /\ resp.status = 200 /\ exitCause # "interrupt")
               => (DeclaredLength = 0 /\ exitCause = "served" /\ downloaded)

C15_Witness ==
    /\ fileData = <<>>
    /\ reporthook
    /\ resp.status = 200
    /\ downloaded
    /\ pc = "done"

\* C16 (as claimed): when the file cannot be opened or read while a matching
\* request is served, no 404 is sent, downloaded stays false and put() ends
\* with a failure, not with "Done.".
C16_FileErrorIsFatal ==
    (Terminated /\ exitCause = "ioerror")
       => (resp.status # 404 /\ ~downloaded /\ result # "Done.")

\* the configuration errors cli() and put() check for
ConfigurationError ==
    \/ ~input_is_file
    \/ interface_given /\ address_given
    \/ port < 0
    \/ port > 65535

\* C17: with a port outside 0..65535, with both address and interface given,
\* or with a missing input file, the run ends with an error and never binds
\* a socket, creates Zeroconf or registers a record.
C17_ConfigurationFailsFast ==
    /\ ConfigurationError
         => /\ sock = "unbound" /\ zc = "none" /\ registered = {}
            /\ pc \in {"cli", "check_port", "raised"}
            /\ pc = "raised" => result = "ValueError"
    /\ result = "ValueError" => ConfigurationError

C17_Witness ==
    /\ input_is_file
    /\ interface_given /\ address_given
    /\ port = 8080
    /\ result = "ValueError"

\* C18: downloaded is true only when a matching request was answered and every
\* byte of the file was written; when streaming fails part-way downloaded
\* stays false, and a run with a timeout then ends with TimeoutException.
C18_DownloadedMeansComplete ==
    /\ downloaded
         => /\ req \in AcceptedPaths
            /\ resp.status = 200
            /\ resp.body = fileData
    /\ exitCause = "ioerror" => ~downloaded
    /\ (Terminated /\ exitCause = "ioerror" /\ timeout # None)
         => result = "TimeoutException"

C18_Witness ==
    /\ exitCause = "ioerror"
    /\ resp.status = 200
    /\ resp.body # <<>>
    /\ resp.body # fileData
    /\ result = "TimeoutException"

\* C19: nothing is announced before the socket is bound; every record built or
\* registered carries the bound address and server.server_port, the real port
\* also when port 0 was asked for, and a failed bind registers nothing.
C19_RecordsCarryBoundEndpoint ==
    /\ \A r \in registered \cup info :
          /\ sock # "unbound"
          /\ r.address = address
          /\ server_port = {r.port}
          /\ r.port # 0
          /\ port # 0 => r.port = port
    /\ sock = "unbound" => (registered = {} /\ info = Undefined /\ zc = "none")

C19_Witness ==
    /\ port = 0
    /\ Cardinality(registered) = 2
    /\ \A r \in registered : r.port \in EphemeralPorts

====
